---- MODULE Spec2Model ----
(***************************************************************************)
(* Model of src/src/index.ts: an OAuth proxy for Decap CMS on Hono.        *)
(* The file holds two revisions of the worker: the github-only one         *)
(* (lines 1-105, here "v1") and the github/gitlab one (lines 107-271,      *)
(* here "v2").  A deployment runs one of them; `app` says which.           *)
(*                                                                         *)
(* Strings are sequences of characters, so that concatenation, split,      *)
(* trim and comparison are computed as the code computes them.             *)
(* One HTTP exchange (the browser sends the request with the cookies of    *)
(* its jar, the worker answers, the browser applies the Set-Cookie         *)
(* headers) is one step: the worker keeps no state between requests.       *)
(***************************************************************************)
EXTENDS Naturals, Sequences, FiniteSets, TLC

VARIABLES
    app,        \* the deployed revision, "v1" or "v2"
    env,        \* the worker's environment: ALLOW_SITE_ID_LIST
    jar,        \* the browser's cookie jar: a set of cookies
    generated,  \* how many states generateState()/generateToken() have produced
    last,       \* the HTTP exchange in progress: the request, the response, the provider calls
    served,     \* the /callback URL served past its state and code checks, while
                \* nothing but further /callback requests has happened since
    popup,      \* the completion page running in the popup window
    issued,     \* for each state generated, the provider /auth issued it for and
                \* the Ticks since
    failed      \* a /callback with the state of the last flow started has ended
                \* in an error

vars == <<app, env, jar, generated, last, served, popup, issued, failed>>

-----------------------------------------------------------------------------
(* Bounds of the model *)

MaxStates == 2      \* states generated in one behaviour
TickSeconds == 90   \* seconds that pass in one Tick
MaxMessages == 2    \* messages delivered to one completion page

-----------------------------------------------------------------------------
(* String literals *)

localhost == <<"l", "o", "c", "a", "l", "h", "o", "s", "t">>
loopback == <<"1", "2", "7", ".", "0", ".", "0", ".", "1">>
github == <<"g", "i", "t", "h", "u", "b">>
gitlab == <<"g", "i", "t", "l", "a", "b">>
bitbucket == <<"b", "i", "t", "b", "u", "c", "k", "e", "t">>
authorizing == <<"a", "u", "t", "h", "o", "r", "i", "z", "i", "n", "g">>
authorization == <<"a", "u", "t", "h", "o", "r", "i", "z", "a", "t", "i", "o", "n">>
success == <<"s", "u", "c", "c", "e", "s", "s">>
error == <<"e", "r", "r", "o", "r">>
Star == <<"*">>
https == <<"h", "t", "t", "p", "s", ":">>
http == <<"h", "t", "t", "p", ":">>
ftp == <<"f", "t", "p", ":">>

\* JavaScript's undefined, null and false, as values no string equals
Undefined == <<"undefined">>
Null == <<"null">>
False == <<"false">>

\* JavaScript truthiness of a string | undefined | null | false
Truthy(s) == s # Undefined /\ s # Null /\ s # False /\ s # <<>>

\* a ?? b
Coalesce(a, b) == IF a = Undefined \/ a = Null THEN b ELSE a

-----------------------------------------------------------------------------
(* String functions of the JavaScript library *)

RECURSIVE IndexOf(_, _, _)
\* the first position >= i of character c in s, 0 when there is none
IndexOf(s, c, i) ==
    IF i > Len(s) THEN 0
    ELSE IF s[i] = c THEN i
    ELSE IndexOf(s, c, i + 1)

RECURSIVE Split(_, _)
\* String.prototype.split(sep) for a one-character separator
Split(s, sep) ==
    LET i == IndexOf(s, sep, 1)
    IN  IF i = 0 THEN <<s>>
        ELSE <<SubSeq(s, 1, i - 1)>> \o Split(SubSeq(s, i + 1, Len(s)), sep)

RECURSIVE TrimStart(_)
TrimStart(s) ==
    IF s # <<>> /\ Head(s) = " " THEN TrimStart(Tail(s)) ELSE s

RECURSIVE TrimEnd(_)
TrimEnd(s) ==
    IF s # <<>> /\ s[Len(s)] = " " THEN TrimEnd(SubSeq(s, 1, Len(s) - 1)) ELSE s

\* String.prototype.trim
Trim(s) == TrimEnd(TrimStart(s))

\* Array.prototype.map(i => i.trim())
MapTrim(list) == [i \in 1..Len(list) |-> Trim(list[i])]

\* Array.prototype.filter(Boolean)
FilterBoolean(list) == SelectSeq(list, LAMBDA e : Truthy(e))

\* Array.prototype.includes
Includes(list, x) == \E i \in 1..Len(list) : list[i] = x

RECURSIVE Join(_, _)
\* Array.prototype.join(sep)
Join(parts, sep) ==
    IF parts = <<>> THEN <<>>
    ELSE IF Len(parts) = 1 THEN parts[1]
    ELSE parts[1] \o sep \o Join(Tail(parts), sep)

\* the lower-case form of one character
LowerChar(c) ==
    CASE c = "A" -> "a"
      [] c = "B" -> "b"
      [] OTHER -> c

ToLower(s) == [i \in 1..Len(s) |-> LowerChar(s[i])]

-----------------------------------------------------------------------------
(* Configuration: the worker's environment *)

\* env(ctx).ALLOW_SITE_ID_LIST of the deployment, " a,,B ": a padded entry, an empty entry
\* and an upper-case entry
ALLOW_SITE_ID_LIST == <<" ", "a", ",", ",", "B", " ">>

\* env(ctx).SECRET
SECRET == <<"k">>

DEFAULT_SITE_ID_LIST == <<localhost, loopback>>

DEFAULT_GITLAB_BASE_URL ==
    <<"h", "t", "t", "p", "s", ":", "/", "/", "g", "i", "t", "l", "a", "b", ".", "c", "o", "m">>

\* env(ctx).GITLAB_BASE_URL, not set in this deployment
GITLAB_BASE_URL == Undefined

ENDPOINT_MAP ==
    [auth |-> <<"/", "a", "u", "t", "h">>,
     callback |-> <<"/", "c", "a", "l", "l", "b", "a", "c", "k">>]

-----------------------------------------------------------------------------
(* URLs *)

SpecialSchemes == {https, http, ftp}

DefaultPort(scheme) ==
    CASE scheme = https -> <<"4", "4", "3">>
      [] scheme = http -> <<"8", "0">>
      [] scheme = ftp -> <<"2", "1">>
      [] OTHER -> <<>>

NoURL == [ok |-> FALSE, protocol |-> <<>>, hostname |-> <<>>, port |-> <<>>]

\* ctx.req.header('Referer') ?? '', then URL.parse: null for a string that is no
\* absolute URL; a special scheme's host is lower-cased and its default port dropped
URLparse(header) ==
    IF header.kind # "url" THEN NoURL
    ELSE [ok |-> TRUE,
          protocol |-> header.scheme,
          hostname |-> IF header.scheme \in SpecialSchemes
                       THEN ToLower(header.host) ELSE header.host,
          port |-> IF header.port = DefaultPort(header.scheme)
                   THEN <<>> ELSE header.port]

\* URL.origin: scheme, host and port of a special scheme, 'null' otherwise
Origin(url) ==
    IF url.protocol \in SpecialSchemes
    THEN url.protocol \o <<"/", "/">> \o url.hostname
         \o (IF url.port = <<>> THEN <<>> ELSE <<":">> \o url.port)
    ELSE <<"n", "u", "l", "l">>

-----------------------------------------------------------------------------
(* Cookies: hono/cookie and the browser's jar *)

SecurePrefix == <<"_", "_", "S", "e", "c", "u", "r", "e", "-">>

\* the cookie name hono reads or writes for `name` under a prefix option
PrefixedName(name, prefix) ==
    IF prefix = "secure" THEN SecurePrefix \o name ELSE name

\* the signature hono appends to a signed cookie's value: an HMAC of the value
\* under the secret, here the pair itself
HMAC(secret, value) == <<"#">> \o secret \o <<"#">> \o value

\* generateCookie of hono/cookie: one Set-Cookie header
generateCookie(name, value, opt) ==
    [name |-> PrefixedName(name, opt.prefix),
     value |-> value,
     path |-> opt.path,
     maxAge |-> opt.maxAge,
     secure |-> opt.secure \/ opt.prefix = "secure",
     httpOnly |-> opt.httpOnly,
     sameSite |-> opt.sameSite]

\* setSignedCookie: the value is stored as value.signature
setSignedCookie(headers, name, value, secret, opt) ==
    Append(headers, generateCookie(name, value \o <<".">> \o HMAC(secret, value), opt))

\* setCookie: the value is stored as it is
setCookie(headers, name, value, opt) ==
    Append(headers, generateCookie(name, value, opt))

\* deleteCookie: setCookie(name, '', {...opt, maxAge: 0})
deleteCookie(headers, name, opt) ==
    setCookie(headers, name, <<>>, [opt EXCEPT !.maxAge = 0])

RECURSIVE LastIndexOf(_, _, _)
\* the last position <= i of character c in s, 0 when there is none
LastIndexOf(s, c, i) ==
    IF i = 0 THEN 0
    ELSE IF s[i] = c THEN i
    ELSE LastIndexOf(s, c, i - 1)

\* getCookie(ctx, name, prefix): the value of the request's cookie, or undefined
getCookie(cookies, name, prefix) ==
    LET key == PrefixedName(name, prefix)
        found == {c \in cookies : c.name = key}
    IN  IF found = {} THEN Undefined ELSE (CHOOSE c \in found : TRUE).value

\* the value before the signature, whatever the signature
getSignedCookieUnverified(cookies, secret, name, prefix) ==
    LET raw == getCookie(cookies, name, prefix)
        dot == IF raw = Undefined THEN 0 ELSE LastIndexOf(raw, ".", Len(raw))
    IN  IF raw = Undefined \/ dot <= 1 THEN Undefined
        ELSE SubSeq(raw, 1, dot - 1)

\* getSignedCookie(ctx, secret, name, prefix): undefined when the cookie is absent
\* or carries no signature, false when the signature does not verify, else the value
getSignedCookie(cookies, secret, name, prefix) ==
    LET raw == getCookie(cookies, name, prefix)
        dot == IF raw = Undefined THEN 0 ELSE LastIndexOf(raw, ".", Len(raw))
        value == SubSeq(raw, 1, dot - 1)
        signature == SubSeq(raw, dot + 1, Len(raw))
    IN  IF raw = Undefined \/ dot <= 1 THEN Undefined
        ELSE IF signature = HMAC(secret, value) THEN value
        ELSE False

\* the Cookie header the browser sends with a request for `path`
CookieHeader(cookies, path) ==
    {[name |-> c.name, value |-> c.value] : c \in {d \in cookies : d.path = path}}

HasSecurePrefix(name) ==
    Len(name) >= Len(SecurePrefix) /\ SubSeq(name, 1, Len(SecurePrefix)) = SecurePrefix

\* the browser applies one Set-Cookie header: a __Secure- name needs the Secure
\* attribute, Max-Age=0 removes the cookie of that name and path, anything else
\* replaces it
ApplySetCookie(cookies, sc) ==
    LET others == {c \in cookies : ~(c.name = sc.name /\ c.path = sc.path)}
    IN  IF HasSecurePrefix(sc.name) /\ ~sc.secure THEN cookies
        ELSE IF sc.maxAge = 0 THEN others
        ELSE others \cup {[name |-> sc.name, value |-> sc.value, path |-> sc.path,
                           maxAge |-> sc.maxAge, age |-> 0]}

RECURSIVE ApplySetCookies(_, _)
ApplySetCookies(cookies, headers) ==
    IF headers = <<>> THEN cookies
    ELSE ApplySetCookies(ApplySetCookie(cookies, Head(headers)), Tail(headers))

\* a cookie lives for maxAge seconds after it was set
Expired(c) == c.age * TickSeconds >= c.maxAge

-----------------------------------------------------------------------------
(* Errors, responses and the request context *)

NoError == [type |-> "none", status |-> 0, message |-> "", description |-> Undefined]

HTTPException(status, message) ==
    [type |-> "HTTPException", status |-> status, message |-> message,
     description |-> Undefined]

NoClient == [kind |-> "none", base |-> <<>>, provider |-> Undefined, site_id |-> Undefined]

NoLocation == [client |-> NoClient, state |-> Undefined, scope |-> <<>>]

NoPage == [listenerOrigin |-> Undefined, verifies |-> FALSE, signal |-> <<>>,
           data |-> <<>>, targetOrigin |-> <<>>]

\* ctx.body(text, status)
Body(text, status, headers) ==
    [status |-> status, kind |-> "text", text |-> text, location |-> NoLocation,
     page |-> NoPage, setCookie |-> headers]

\* ctx.html(page, status)
Html(page, status, headers) ==
    [status |-> status, kind |-> "html", text |-> "", location |-> NoLocation,
     page |-> page, setCookie |-> headers]

\* ctx.redirect(location)
Redirect(location, headers) ==
    [status |-> 302, kind |-> "redirect", text |-> "", location |-> location,
     page |-> NoPage, setCookie |-> headers]

\* the context of a request before any middleware ran: ctx.var and the headers
\* queued for the response
NewContext ==
    [site_id |-> Undefined, trustOrigin |-> Undefined, provider |-> Undefined,
     oauthClient |-> NoClient, headers |-> <<>>]

\* a middleware or handler ended by throwing `err`
Throw(err, ctx) == [err |-> err, ctx |-> ctx]

\* a middleware ended by calling next()
Continue(ctx) == [err |-> NoError, ctx |-> ctx]

-----------------------------------------------------------------------------
(* The worker, revision v2 *)

\* one cookie name for every provider
getStateCookieNameShared(provider) == <<"-", "s", "t", "a", "t", "e">>

getStateCookieName(provider) == provider \o <<"-", "s", "t", "a", "t", "e">>

\* JSON.stringify of one character inside a string
JSONChar(c) ==
    CASE c = "\"" -> <<"\\", "\"">>
      [] c = "\\" -> <<"\\", "\\">>
      [] OTHER -> <<c>>

RECURSIVE JSONEscape(_)
JSONEscape(s) == IF s = <<>> THEN <<>> ELSE JSONChar(Head(s)) \o JSONEscape(Tail(s))

\* JSON.stringify of { token } or { message }: a property that is undefined is
\* left out, null is written null
JSONstringify(payload) ==
    IF payload.value = Undefined THEN <<"{", "}">>
    ELSE <<"{", "\"">> \o payload.key \o <<"\"", ":">>
         \o (IF payload.value = Null THEN <<"n", "u", "l", "l">>
             ELSE <<"\"">> \o JSONEscape(payload.value) \o <<"\"">>)
         \o <<"}">>

\* renderBody: the holes of the completion script. The listener verifies the
\* source and the data of the message, and its origin only when trustOrigin is
\* truthy; the signal is posted to trustOrigin ?? '*'
renderBody(provider, status, payload, trustOrigin) ==
    LET signal == Join(<<authorizing, provider>>, <<":">>)
        data == Join(<<authorization, provider, status, JSONstringify(payload)>>, <<":">>)
    IN  [listenerOrigin |-> IF Truthy(trustOrigin) THEN trustOrigin ELSE Undefined,
         verifies |-> TRUE,
         signal |-> signal,
         data |-> data,
         targetOrigin |-> Coalesce(trustOrigin, Star)]

\* the allow-list of siteIdVerifyMiddleware
\* the allow-list with the entries as they are between the commas
allowSiteIdListUntrimmed ==
    FilterBoolean(Split(env.ALLOW_SITE_ID_LIST, ",")) \o DEFAULT_SITE_ID_LIST

allowSiteIdList ==
    FilterBoolean(MapTrim(Split(env.ALLOW_SITE_ID_LIST, ","))) \o DEFAULT_SITE_ID_LIST

\* the site_id check with && for ||
SiteIdRejectedBoth(site_id) == ~Truthy(site_id) /\ ~Includes(allowSiteIdList, site_id)

\* siteIdVerifyMiddleware: the site_id check
SiteIdRejected(site_id) == ~Truthy(site_id) \/ ~Includes(allowSiteIdList, site_id)

\* trustOrigin set from any Referer that parses
TrustOriginOfAnyReferer(site_id, referer, before) ==
    IF referer.ok THEN Origin(referer) ELSE before

\* siteIdVerifyMiddleware: trustOrigin is set when the Referer's hostname is site_id
TrustOriginOf(site_id, referer, before) ==
    IF referer.ok /\ site_id = referer.hostname THEN Origin(referer) ELSE before

siteIdVerifyMiddleware(req, ctx) ==
    LET site_id == req.site_id
        referer == URLparse(req.referer)
    IN  IF SiteIdRejected(site_id)
        THEN Throw(HTTPException(400, "Invalid site_id"), ctx)
        ELSE Continue([ctx EXCEPT !.site_id = site_id,
                                  !.trustOrigin = TrustOriginOf(site_id, referer, @)])

\* new GitHub(...) / new GitLab(...) with getCallbackUrl({ provider, site_id })
OAuthClient(kind, base, provider, site_id) ==
    [kind |-> kind, base |-> base, provider |-> provider, site_id |-> site_id]

oauthMiddleware(req, ctx) ==
    LET provider == req.provider
        site_id == req.site_id
    IN  IF provider = github
        THEN Continue([ctx EXCEPT
                 !.oauthClient = OAuthClient("GitHub", <<>>, provider, site_id),
                 !.provider = provider])
        ELSE IF provider = gitlab
        THEN Continue([ctx EXCEPT
                 !.oauthClient = OAuthClient("GitLab",
                                     Coalesce(GITLAB_BASE_URL, DEFAULT_GITLAB_BASE_URL),
                                     provider, site_id),
                 !.provider = provider])
        ELSE Throw(HTTPException(400, "Invalid provider"), ctx)

\* err.getResponse(): a response built from the exception. Whether the Set-Cookie
\* headers queued on the context reach it is decided inside hono, not in this
\* file: `merged` is either
getResponse(err, ctx, merged) ==
    Body(err.message, err.status, IF merged THEN ctx.headers ELSE <<>>)

\* app.onError without the branch for OAuth2RequestError
onErrorNoHandshake(err, ctx, merged) ==
    IF err.type = "HTTPException"
    THEN getResponse(err, ctx, merged)
    ELSE Body("Internal Server Error", 500, ctx.headers)

\* app.onError
onError(err, ctx, merged) ==
    IF err.type = "OAuth2RequestError"
    THEN Html(renderBody(ctx.provider, error,
                         [key |-> <<"m", "e", "s", "s", "a", "g", "e">>,
                          value |-> err.description],
                         ctx.trustOrigin),
              400, ctx.headers)
    ELSE IF err.type = "HTTPException"
    THEN getResponse(err, ctx, merged)
    ELSE Body("Internal Server Error", 500, ctx.headers)

-----------------------------------------------------------------------------
(* The provider, seen through arctic *)

Digit == <<"1", "2", "3", "4", "5", "6", "7", "8", "9">>

\* generateState(): a random string; the n-th call returns a value no other call returns
generateState(n) == <<"s", Digit[n]>>

\* what the provider answers to a code exchange
Outcomes ==
    { [type |-> "tokens", accessToken |-> <<"t", "k">>, description |-> Undefined],
      [type |-> "OAuth2RequestError", accessToken |-> Undefined,
       description |-> <<"b", "a", "d">>],
      [type |-> "OAuth2RequestError", accessToken |-> Undefined, description |-> Null],
      [type |-> "ArcticFetchError", accessToken |-> Undefined, description |-> Undefined],
      [type |-> "Error", accessToken |-> Undefined, description |-> Undefined] }

\* the exchange tried again after a transport failure
validateAuthorizationCodeRetried(code, outcome) ==
    [calls |-> IF outcome.type = "ArcticFetchError" THEN 2 ELSE 1,
     err |-> IF outcome.type = "tokens" THEN NoError
             ELSE [type |-> outcome.type, status |-> 0, message |-> "",
                   description |-> outcome.description],
     accessToken |-> outcome.accessToken]

\* oauthClient.validateAuthorizationCode(code): one call to the provider's token
\* endpoint, which returns the tokens or throws
validateAuthorizationCode(code, outcome) ==
    [calls |-> 1,
     err |-> IF outcome.type = "tokens" THEN NoError
             ELSE [type |-> outcome.type, status |-> 0, message |-> "",
                   description |-> outcome.description],
     accessToken |-> outcome.accessToken]

\* oauthClient.createAuthorizationURL(state, scope)
createAuthorizationURL(oauthClient, state, scope) ==
    [client |-> oauthClient, state |-> state, scope |-> scope]

-----------------------------------------------------------------------------
(* The handlers of v2 *)

\* the options of the state cookie with maxAge in minutes for seconds
StateCookieOptionsLongLived ==
    [maxAge |-> 3 * 60 * 60, httpOnly |-> TRUE, path |-> ENDPOINT_MAP.callback,
     secure |-> TRUE, sameSite |-> "Lax", prefix |-> "secure"]

\* the options of the state cookie without the path
StateCookieOptionsAnyPath ==
    [maxAge |-> 3 * 60, httpOnly |-> TRUE, path |-> <<"/">>,
     secure |-> TRUE, sameSite |-> "Lax", prefix |-> "secure"]

StateCookieOptions ==
    [maxAge |-> 3 * 60, httpOnly |-> TRUE, path |-> ENDPOINT_MAP.callback,
     secure |-> TRUE, sameSite |-> "Lax", prefix |-> "secure"]

DeleteCookieOptions ==
    [maxAge |-> 0, httpOnly |-> FALSE, path |-> ENDPOINT_MAP.callback,
     secure |-> TRUE, sameSite |-> "", prefix |-> "none"]

\* ctx.req.query('scope')?.split(' ') ?? []
ScopeOf(scope) == IF scope = Undefined THEN <<>> ELSE Split(scope, " ")

\* the handler of ENDPOINT_MAP.auth; `state` is what generateState() returns
authHandler(req, ctx, state) ==
    LET provider == ctx.provider
        oauthClient == ctx.oauthClient
        cookieName == getStateCookieName(provider)
        headers == setSignedCookie(ctx.headers, cookieName, state, SECRET,
                                   StateCookieOptions)
        scope == ScopeOf(req.scope)
    IN  [err |-> NoError,
         ctx |-> [ctx EXCEPT !.headers = headers],
         resp |-> Redirect(createAuthorizationURL(oauthClient, state, scope), headers),
         calls |-> 0]

\* the state check without the comparison of state with the cookie
StateRejectedUncompared(state, storedState) ==
    ~Truthy(state) \/ ~Truthy(storedState)

\* the state check of the callback handler
StateRejected(state, storedState) ==
    ~Truthy(state) \/ ~Truthy(storedState) \/ state # storedState

\* the handler of ENDPOINT_MAP.callback; `outcome` is the provider's answer
callbackHandler(req, ctx, outcome) ==
    LET provider == ctx.provider
        trustOrigin == ctx.trustOrigin
        cookieName == getStateCookieName(provider)
        storedState == getSignedCookie(req.cookies, SECRET, cookieName, "secure")
        ctx1 == [ctx EXCEPT !.headers = deleteCookie(@, cookieName, DeleteCookieOptions)]
        state == req.state
        code == req.code
        tokens == validateAuthorizationCode(code, outcome)
    IN  IF StateRejected(state, storedState)
        THEN [err |-> HTTPException(400, "Invalid state"), ctx |-> ctx1,
              resp |-> Body("", 0, <<>>), calls |-> 0]
        ELSE IF ~Truthy(code)
        THEN [err |-> HTTPException(400, "Invalid code"), ctx |-> ctx1,
              resp |-> Body("", 0, <<>>), calls |-> 0]
        ELSE IF tokens.err.type # "none"
        THEN [err |-> tokens.err, ctx |-> ctx1, resp |-> Body("", 0, <<>>),
              calls |-> tokens.calls]
        ELSE [err |-> NoError, ctx |-> ctx1,
              resp |-> Html(renderBody(provider, success,
                                       [key |-> <<"t", "o", "k", "e", "n">>,
                                        value |-> tokens.accessToken],
                                       trustOrigin),
                            200, ctx1.headers),
              calls |-> tokens.calls]

\* app.get(ENDPOINT_MAP.auth, siteIdVerifyMiddleware, oauthMiddleware, handler):
\* the middlewares in order, then the handler; a throw anywhere goes to onError
authRoute(req, state, merged) ==
    LET m1 == siteIdVerifyMiddleware(req, NewContext)
        m2 == oauthMiddleware(req, m1.ctx)
        h == authHandler(req, m2.ctx, state)
    IN  IF m1.err.type # "none"
        THEN [resp |-> onError(m1.err, m1.ctx, merged), calls |-> 0, ctx |-> m1.ctx]
        ELSE IF m2.err.type # "none"
        THEN [resp |-> onError(m2.err, m2.ctx, merged), calls |-> 0, ctx |-> m2.ctx]
        ELSE [resp |-> h.resp, calls |-> h.calls, ctx |-> h.ctx]

\* app.get(ENDPOINT_MAP.callback, siteIdVerifyMiddleware, oauthMiddleware, handler)
callbackRoute(req, outcome, merged) ==
    LET m1 == siteIdVerifyMiddleware(req, NewContext)
        m2 == oauthMiddleware(req, m1.ctx)
        h == callbackHandler(req, m2.ctx, outcome)
    IN  IF m1.err.type # "none"
        THEN [resp |-> onError(m1.err, m1.ctx, merged), calls |-> 0, ctx |-> m1.ctx]
        ELSE IF m2.err.type # "none"
        THEN [resp |-> onError(m2.err, m2.ctx, merged), calls |-> 0, ctx |-> m2.ctx]
        ELSE IF h.err.type # "none"
        THEN [resp |-> onError(h.err, h.ctx, merged), calls |-> h.calls, ctx |-> h.ctx]
        ELSE [resp |-> h.resp, calls |-> h.calls, ctx |-> h.ctx]

-----------------------------------------------------------------------------
(* The worker, revision v1 (github only) *)

\* generateToken(secret) of ./csrf-token: the n-th token, a nonce with its HMAC
\* under the secret
generateToken(secret, n) == generateState(n) \o <<".">> \o HMAC(secret, generateState(n))

\* verifyToken(secret, token) of ./csrf-token
verifyToken(secret, token) ==
    LET dot == LastIndexOf(token, ".", Len(token))
    IN  /\ dot > 1
        /\ SubSeq(token, dot + 1, Len(token)) = HMAC(secret, SubSeq(token, 1, dot - 1))

\* [...env(ctx).ALLOW_SITE_ID_LIST.trim().split(','), ...DEFAULT_SITE_ID_LIST]
allowSiteIdListV1 == Split(Trim(env.ALLOW_SITE_ID_LIST), ",") \o DEFAULT_SITE_ID_LIST

AuthStateCookieOptions ==
    [maxAge |-> 3 * 60, httpOnly |-> FALSE, path |-> <<"/", "c", "a", "l", "l", "b", "a", "c", "k">>,
     secure |-> TRUE, sameSite |-> "Lax", prefix |-> "secure"]

AuthStateDeleteOptions ==
    [maxAge |-> 0, httpOnly |-> FALSE, path |-> <<"/", "c", "a", "l", "l", "b", "a", "c", "k">>,
     secure |-> TRUE, sameSite |-> "", prefix |-> "none"]

AuthStateCookie == <<"a", "u", "t", "h", "-", "s", "t", "a", "t", "e">>

\* app.onError of v1
onErrorV1(err, ctx, merged) ==
    IF err.type = "HTTPException"
    THEN getResponse(err, ctx, merged)
    ELSE Body("Internal Server Error", 500, ctx.headers)

\* the handler of '/auth' of v1; `state` is what generateToken returns
authHandlerV1(req, ctx, state) ==
    LET referer == URLparse(req.referer)
        refererHost == IF referer.ok THEN referer.hostname ELSE Undefined
        headers == setCookie(ctx.headers, AuthStateCookie, state, AuthStateCookieOptions)
        scope == IF Truthy(req.scope) THEN Split(req.scope, " ") ELSE <<>>
        none == Body("", 0, <<>>)
    IN  IF ~Truthy(refererHost) \/ ~Includes(allowSiteIdListV1, refererHost)
        THEN [err |-> HTTPException(400, "Invalid referer"), ctx |-> ctx,
              resp |-> none, calls |-> 0]
        ELSE IF ~Truthy(req.site_id) \/ ~Includes(allowSiteIdListV1, req.site_id)
        THEN [err |-> HTTPException(400, "Invalid site_id"), ctx |-> ctx,
              resp |-> none, calls |-> 0]
        ELSE IF req.provider # github
        THEN [err |-> HTTPException(400, "Invalid provider"), ctx |-> ctx,
              resp |-> none, calls |-> 0]
        ELSE [err |-> NoError,
              ctx |-> [ctx EXCEPT !.headers = headers],
              resp |-> Redirect(createAuthorizationURL(ctx.oauthClient, state, scope),
                                headers),
              calls |-> 0]

\* the completion script of v1: the listener verifies nothing and posts to '*'
PageV1(accessToken) ==
    [listenerOrigin |-> Undefined,
     verifies |-> FALSE,
     signal |-> authorizing \o <<":">> \o github,
     data |-> authorization \o <<":">> \o github \o <<":">> \o success \o <<":">>
              \o JSONstringify([key |-> <<"t", "o", "k", "e", "n">>,
                                value |-> accessToken]),
     targetOrigin |-> Star]

\* the handler of '/callback' of v1
callbackHandlerV1(req, ctx, outcome) ==
    LET state == req.state
        code == req.code
        storedState == getCookie(req.cookies, AuthStateCookie, "secure")
        tokens == validateAuthorizationCode(code, outcome)
        ctx1 == [ctx EXCEPT
                   !.headers = deleteCookie(@, AuthStateCookie, AuthStateDeleteOptions)]
        none == Body("", 0, <<>>)
    IN  IF ~Truthy(code)
        THEN [err |-> HTTPException(400, "Invalid code"), ctx |-> ctx,
              resp |-> none, calls |-> 0]
        ELSE IF ~Truthy(state) \/ ~Truthy(storedState) \/ state # storedState
                \/ ~verifyToken(SECRET, state)
        THEN [err |-> HTTPException(400, "Invalid state"), ctx |-> ctx,
              resp |-> none, calls |-> 0]
        ELSE IF tokens.err.type # "none"
        THEN [err |-> tokens.err, ctx |-> ctx, resp |-> none, calls |-> tokens.calls]
        ELSE [err |-> NoError, ctx |-> ctx1,
              resp |-> Html(PageV1(tokens.accessToken), 200, ctx1.headers),
              calls |-> tokens.calls]

\* githubAuthMiddleware around a handler that ended as `h`: the client is set
\* before next(); a throw of the handler has been answered by app.onError when
\* next() returns, and ctx.error of a provider or transport failure is thrown
\* again as an HTTPException
githubAuthMiddleware(h) ==
    LET answered == IF h.err.type = "none" THEN h.resp
                    ELSE onErrorV1(h.err, h.ctx, TRUE)
    IN  IF h.err.type = "OAuth2RequestError"
        THEN onErrorV1(HTTPException(400, "Invalid code"), h.ctx, TRUE)
        ELSE IF h.err.type = "ArcticFetchError"
        THEN onErrorV1(HTTPException(500, "Network error"), h.ctx, TRUE)
        ELSE answered

ContextV1 ==
    [NewContext EXCEPT !.oauthClient = OAuthClient("GitHub", <<>>, Undefined, Undefined)]

\* app.get('/auth', githubAuthMiddleware, handler)
authRouteV1(req, state) ==
    LET h == authHandlerV1(req, ContextV1, state)
    IN  [resp |-> githubAuthMiddleware(h), calls |-> h.calls, ctx |-> h.ctx]

\* app.get('/callback', githubAuthMiddleware, handler)
callbackRouteV1(req, outcome) ==
    LET h == callbackHandlerV1(req, ContextV1, outcome)
    IN  [resp |-> githubAuthMiddleware(h), calls |-> h.calls, ctx |-> h.ctx]

-----------------------------------------------------------------------------
(* The requests the browser sends *)

SiteIdInputs == {Undefined, <<"a">>, <<"b">>}

ProviderInputs == {github, gitlab, bitbucket}

NoReferer == [kind |-> "absent", scheme |-> <<>>, host |-> <<>>, port |-> <<>>]

RefererInputs ==
    { NoReferer,
      [kind |-> "malformed", scheme |-> <<>>, host |-> <<>>, port |-> <<>>],
      [kind |-> "url", scheme |-> https, host |-> <<"A">>, port |-> <<"4", "4", "3">>],
      [kind |-> "url", scheme |-> http, host |-> <<"a">>, port |-> <<"8", "0", "8", "0">>],
      [kind |-> "url", scheme |-> <<"a", "p", "p", ":">>, host |-> <<"a">>, port |-> <<>>],
      [kind |-> "url", scheme |-> https, host |-> <<"b">>, port |-> <<>>] }

ScopeInputs == {Undefined, <<"r", " ", "u">>}

StateInputs == {Undefined, <<>>} \cup {generateState(n) : n \in 1..MaxStates}

CodeInputs == {Undefined, <<>>, <<"c">>}

NoRequest ==
    [site_id |-> Undefined, provider |-> Undefined, scope |-> Undefined,
     state |-> Undefined, code |-> Undefined, referer |-> NoReferer, cookies |-> {}]

NoExchange ==
    [endpoint |-> "none", req |-> NoRequest, resp |-> Body("", 0, <<>>), calls |-> 0,
     outcome |-> "none", description |-> Undefined]

\* the query string of a /callback request
CallbackURL(req) ==
    [site_id |-> req.site_id, provider |-> req.provider, state |-> req.state,
     code |-> req.code]

NoCallbackURL == CallbackURL(NoRequest)

NoMessage == [source |-> "none", data |-> <<>>, origin |-> <<>>]

NoArgs == [provider |-> Undefined, status |-> <<>>,
           payload |-> [key |-> <<>>, value |-> Undefined], trustOrigin |-> Undefined]

\* the popup window before a completion page runs in it
NoPopup ==
    [args |-> NoArgs,       \* the arguments renderBody was called with
     page |-> NoPage,       \* the completion page loaded
     opener |-> FALSE,      \* window.opener is a window (not null)
     loaded |-> FALSE,      \* the script has run
     listening |-> FALSE,   \* the 'message' listener is registered
     posted |-> <<>>,       \* the postMessage calls made, in order
     received |-> 0,        \* the message events dispatched at the window
     handled |-> NoMessage, \* the message the listener ran on
     late |-> FALSE]        \* a message the listener would have accepted came
                            \* after the listener was removed

\* the provider answers only a request that reaches the code exchange
OutcomesOf(req) ==
    IF callbackRoute(req, CHOOSE o \in Outcomes : TRUE, TRUE).calls > 0
    THEN Outcomes
    ELSE {CHOOSE o \in Outcomes : TRUE}

\* the states a /callback of v1 is tried with: none, the tokens of the worker and
\* one signed with another key
StateInputsV1 ==
    {Undefined, <<>>} \cup {generateToken(SECRET, n) : n \in 1..MaxStates}
        \cup {generateToken(<<"x">>, 1)}

OutcomesOfV1(req) ==
    IF callbackRouteV1(req, CHOOSE o \in Outcomes : TRUE).calls > 0
    THEN Outcomes
    ELSE {CHOOSE o \in Outcomes : TRUE}

\* hono's choice matters only for an HTTPException thrown with headers queued
MergedOf(resp) ==
    IF resp.kind = "text" /\ resp.setCookie # <<>> /\ resp.status = 400
    THEN BOOLEAN ELSE {TRUE}

-----------------------------------------------------------------------------
(* The state machine *)

\* no state has been issued
NoneIssued == [n \in 1..MaxStates |-> [provider |-> Undefined, age |-> 0]]

\* the exchange ended in an error response
Failure(resp) == resp.status >= 400

Init ==
    /\ app \in {"v1", "v2"}
    /\ env = [ALLOW_SITE_ID_LIST |-> ALLOW_SITE_ID_LIST]
    /\ jar = {}
    /\ generated = 0
    /\ last = NoExchange
    /\ served = NoCallbackURL
    /\ popup = NoPopup
    /\ issued = NoneIssued
    /\ failed = FALSE

\* GET /auth
AuthRequest ==
    /\ app = "v2"
    /\ last.endpoint = "none"
    /\ generated < MaxStates
    /\ \E site_id \in SiteIdInputs, provider \in ProviderInputs,
          scope \in ScopeInputs, referer \in RefererInputs :
        LET req == [NoRequest EXCEPT !.site_id = site_id, !.provider = provider,
                                     !.scope = scope, !.referer = referer,
                                     !.cookies = CookieHeader(jar, ENDPOINT_MAP.auth)]
            r == authRoute(req, generateState(generated + 1), TRUE)
        IN  /\ jar' = ApplySetCookies(jar, r.resp.setCookie)
            /\ generated' = IF r.resp.kind = "redirect" THEN generated + 1 ELSE generated
            /\ last' = [endpoint |-> "auth", req |-> req, resp |-> r.resp,
                        calls |-> r.calls, outcome |-> "none",
                        description |-> Undefined]
    /\ UNCHANGED <<app, env, served, popup>>

\* GET /callback
CallbackRequest ==
    /\ app = "v2"
    /\ last.endpoint = "none"
    /\ \E site_id \in SiteIdInputs, provider \in ProviderInputs, state \in StateInputs,
          code \in CodeInputs, referer \in RefererInputs :
        LET req == [NoRequest EXCEPT !.site_id = site_id, !.provider = provider,
                                     !.state = state, !.code = code,
                                     !.referer = referer,
                                     !.cookies = CookieHeader(jar, ENDPOINT_MAP.callback)]
        IN  \E outcome \in OutcomesOf(req) :
            \E merged \in MergedOf(callbackRoute(req, outcome, TRUE).resp) :
                LET r == callbackRoute(req, outcome, merged)
                IN  /\ jar' = ApplySetCookies(jar, r.resp.setCookie)
                    /\ last' = [endpoint |-> "callback", req |-> req, resp |-> r.resp,
                                calls |-> r.calls,
                                outcome |-> IF r.calls > 0 THEN outcome.type ELSE "none",
                                description |-> IF r.calls > 0 THEN outcome.description
                                                ELSE Undefined]
    /\ UNCHANGED <<app, env, generated, served, popup>>

Auth == AuthRequest /\ UNCHANGED <<issued, failed>>

Callback == CallbackRequest /\ UNCHANGED <<issued, failed>>

\* GET /auth of v1
AuthV1 ==
    /\ app = "v1"
    /\ last.endpoint = "none"
    /\ generated < MaxStates
    /\ \E site_id \in SiteIdInputs, provider \in ProviderInputs,
          scope \in ScopeInputs, referer \in RefererInputs :
        LET req == [NoRequest EXCEPT !.site_id = site_id, !.provider = provider,
                                     !.scope = scope, !.referer = referer,
                                     !.cookies = CookieHeader(jar, <<"/", "a", "u", "t", "h">>)]
            r == authRouteV1(req, generateToken(SECRET, generated + 1))
        IN  /\ jar' = ApplySetCookies(jar, r.resp.setCookie)
            /\ generated' = IF r.resp.kind = "redirect" THEN generated + 1 ELSE generated
            /\ last' = [endpoint |-> "auth", req |-> req, resp |-> r.resp,
                        calls |-> r.calls, outcome |-> "none",
                        description |-> Undefined]
    /\ UNCHANGED <<app, env, served, popup, issued, failed>>

\* GET /callback of v1
CallbackV1 ==
    /\ app = "v1"
    /\ last.endpoint = "none"
    /\ \E site_id \in SiteIdInputs, provider \in ProviderInputs,
          state \in StateInputsV1, code \in CodeInputs :
        LET req == [NoRequest EXCEPT !.site_id = site_id, !.provider = provider,
                                     !.state = state, !.code = code,
                                     !.cookies = CookieHeader(jar, <<"/", "c", "a", "l", "l", "b", "a", "c", "k">>)]
        IN  \E outcome \in OutcomesOfV1(req) :
                LET r == callbackRouteV1(req, outcome)
                IN  /\ jar' = ApplySetCookies(jar, r.resp.setCookie)
                    /\ last' = [endpoint |-> "callback", req |-> req, resp |-> r.resp,
                                calls |-> r.calls,
                                outcome |-> IF r.calls > 0 THEN outcome.type ELSE "none",
                                description |-> IF r.calls > 0 THEN outcome.description
                                                ELSE Undefined]
    /\ UNCHANGED <<app, env, generated, served, popup, issued, failed>>

\* the browser has taken the response: the exchange is over
Settle ==
    /\ last.endpoint # "none"
    /\ last' = NoExchange
    /\ served' = IF last.endpoint = "callback" /\ last.calls > 0
                 THEN CallbackURL(last.req)
                 ELSE IF last.endpoint = "auth" /\ last.resp.kind = "redirect"
                 THEN NoCallbackURL
                 ELSE served
    /\ UNCHANGED <<app, env, jar, generated, popup, issued, failed>>

\* TickSeconds pass between two exchanges: every cookie ages, and the browser
\* drops the expired ones
Elapse ==
    /\ last.endpoint = "none"
    /\ jar # {}
    /\ jar' = {c \in {[d EXCEPT !.age = @ + 1] : d \in jar} : ~Expired(c)}
    /\ served' = NoCallbackURL
    /\ UNCHANGED <<app, env, generated, last, popup>>

Tick == Elapse /\ UNCHANGED <<issued, failed>>

\* the part of a signed cookie value before its signature
PlainValue(raw) ==
    LET dot == LastIndexOf(raw, ".", Len(raw))
    IN  IF dot = 0 THEN raw ELSE SubSeq(raw, 1, dot - 1)

\* what someone with access to the jar can make of a state cookie without the
\* secret: sign it with another key, put another value before the signature, or
\* drop the signature
Forgeries(raw) ==
    LET value == PlainValue(raw)
    IN  {value \o <<".">> \o HMAC(<<"x">>, value), value}
        \cup {(IF value = generateState(1) THEN generateState(2) ELSE generateState(1))
              \o <<".">> \o HMAC(SECRET, value)}

\* a state cookie still as the worker signed it is replaced by a forgery
Tamper ==
    /\ last.endpoint = "none"
    /\ \E c \in jar :
        /\ c.value = PlainValue(c.value) \o <<".">> \o HMAC(SECRET, PlainValue(c.value))
        /\ \E forged \in Forgeries(c.value) :
            jar' = (jar \ {c}) \cup {[c EXCEPT !.value = forged]}
    /\ served' = NoCallbackURL
    /\ UNCHANGED <<app, env, generated, last, popup, issued, failed>>

Next == Auth \/ Callback \/ AuthV1 \/ CallbackV1 \/ Settle \/ Tick \/ Tamper

Spec == Init /\ [][Next]_vars

-----------------------------------------------------------------------------
(* The flows of one browser against v2, with their history *)

InitFlows ==
    /\ app = "v2"
    /\ env = [ALLOW_SITE_ID_LIST |-> ALLOW_SITE_ID_LIST]
    /\ jar = {}
    /\ generated = 0
    /\ last = NoExchange
    /\ served = NoCallbackURL
    /\ popup = NoPopup
    /\ issued = NoneIssued
    /\ failed = FALSE

\* GET /auth starts a flow when it issues a state
FlowAuth ==
    /\ AuthRequest
    /\ issued' = IF last'.resp.kind = "redirect"
                 THEN [issued EXCEPT ![generated'] =
                                         [provider |-> last'.req.provider, age |-> 0]]
                 ELSE issued
    /\ failed' = IF last'.resp.kind = "redirect" THEN FALSE ELSE failed

\* the request carries the state of the last flow started
OfLastFlow(req) == generated > 0 /\ req.state = generateState(generated)

\* GET /callback ends in a page of status success or in an error
FlowCallback ==
    /\ CallbackRequest
    /\ failed' = (failed \/ (OfLastFlow(last'.req) /\ Failure(last'.resp)))
    /\ UNCHANGED issued

\* TickSeconds pass: the states issued age with the cookies, until they are
\* older than the three minutes of a state cookie
FlowTick ==
    /\ Elapse
    /\ issued' = [n \in 1..MaxStates |->
                    IF n <= generated /\ issued[n].age * TickSeconds <= 3 * 60
                    THEN [issued[n] EXCEPT !.age = @ + 1]
                    ELSE issued[n]]
    /\ UNCHANGED failed

NextFlows == FlowAuth \/ FlowCallback \/ Settle \/ FlowTick

SpecFlows == InitFlows /\ [][NextFlows]_vars

-----------------------------------------------------------------------------
(* The site_id check of v2 under the configurations of ALLOW_SITE_ID_LIST *)

\* the values of ALLOW_SITE_ID_LIST: that of the deployment, the empty string,
\* empty and blank entries only (", ,"), and one entry ("b")
Configurations ==
    { ALLOW_SITE_ID_LIST, <<>>, <<",", " ", ",">>, <<"b">> }

\* the site_ids tried: none, empty, entries as configured and as trimmed, other
\* case, the defaults
SiteIdProbes ==
    SiteIdInputs \cup {<<>>, <<"B">>, <<" ", "a">>, <<"B", " ">>, <<" ">>, <<"A">>,
                       localhost, loopback,
                       <<"L", "o", "c", "a", "l", "h", "o", "s", "t">>}

InitSiteId ==
    /\ app = "v2"
    /\ env \in {[ALLOW_SITE_ID_LIST |-> c] : c \in Configurations}
    /\ jar = {}
    /\ generated = 0
    /\ last = NoExchange
    /\ served = NoCallbackURL
    /\ popup = NoPopup
    /\ issued = NoneIssued
    /\ failed = FALSE

\* GET /auth with a site_id of SiteIdProbes
AuthSiteId ==
    /\ last.endpoint = "none"
    /\ generated < MaxStates
    /\ \E site_id \in SiteIdProbes, provider \in ProviderInputs :
        LET req == [NoRequest EXCEPT !.site_id = site_id, !.provider = provider,
                                     !.cookies = CookieHeader(jar, ENDPOINT_MAP.auth)]
            r == authRoute(req, generateState(generated + 1), TRUE)
        IN  /\ jar' = ApplySetCookies(jar, r.resp.setCookie)
            /\ generated' = IF r.resp.kind = "redirect" THEN generated + 1 ELSE generated
            /\ last' = [endpoint |-> "auth", req |-> req, resp |-> r.resp,
                        calls |-> r.calls, outcome |-> "none",
                        description |-> Undefined]
    /\ UNCHANGED <<app, env, served, popup, issued, failed>>

\* GET /callback with a site_id of SiteIdProbes
CallbackSiteId ==
    /\ last.endpoint = "none"
    /\ \E site_id \in SiteIdProbes, provider \in ProviderInputs, state \in StateInputs :
        LET req == [NoRequest EXCEPT !.site_id = site_id, !.provider = provider,
                                     !.state = state, !.code = <<"c">>,
                                     !.cookies = CookieHeader(jar, ENDPOINT_MAP.callback)]
        IN  \E outcome \in OutcomesOf(req) :
            \E merged \in MergedOf(callbackRoute(req, outcome, TRUE).resp) :
                LET r == callbackRoute(req, outcome, merged)
                IN  /\ jar' = ApplySetCookies(jar, r.resp.setCookie)
                    /\ last' = [endpoint |-> "callback", req |-> req, resp |-> r.resp,
                                calls |-> r.calls,
                                outcome |-> IF r.calls > 0 THEN outcome.type ELSE "none",
                                description |-> IF r.calls > 0 THEN outcome.description
                                                ELSE Undefined]
    /\ UNCHANGED <<app, env, generated, served, popup, issued, failed>>

NextSiteId == AuthSiteId \/ CallbackSiteId \/ Settle

SpecSiteId == InitSiteId /\ [][NextSiteId]_vars

-----------------------------------------------------------------------------
(* The completion script of renderBody, running in the popup *)

\* the origins of the windows that talk to the popup
Origins ==
    { <<"h", "t", "t", "p", "s", ":", "/", "/", "a">>,
      <<"h", "t", "t", "p", ":", "/", "/", "a", ":", "8", "0", "8", "0">>,
      <<"h", "t", "t", "p", "s", ":", "/", "/", "e", "v", "i", "l">>,
      <<"n", "u", "l", "l">> }

\* the error_description values a provider sends: plain, with a double quote,
\* with a backslash, with a single quote, and none
Descriptions ==
    { <<"b", "a", "d">>, <<"a", "\"", "b">>, <<"a", "\\", "b">>, <<"a", "'", "b">>, Null }

\* the calls of renderBody the /callback route and app.onError make
PageArgs ==
    { [provider |-> provider, status |-> c.status, payload |-> c.payload,
       trustOrigin |-> trustOrigin] :
        provider \in {github, gitlab},
        c \in { [status |-> success,
                 payload |-> [key |-> <<"t", "o", "k", "e", "n">>, value |-> <<"t", "k">>]] }
              \cup { [status |-> error,
                      payload |-> [key |-> <<"m", "e", "s", "s", "a", "g", "e">>,
                                   value |-> d]] : d \in Descriptions },
        trustOrigin \in {Undefined} \cup (Origins \ {<<"h", "t", "t", "p", "s", ":", "/", "/", "e", "v", "i", "l">>}) }

\* the completion pages the /callback route renders
Pages == { renderBody(a.provider, a.status, a.payload, a.trustOrigin) : a \in PageArgs }

\* the character an escape sequence \c of a string literal stands for
Unescape(c) ==
    CASE c = "n" -> "\n"
      [] c = "t" -> "\t"
      [] OTHER -> c

RECURSIVE StringLiteral(_)
\* the script's '${...}': the value the JavaScript parser gives the single-quoted
\* literal whose source text is s. A backslash escapes the next character; a
\* quote that is not escaped ends the literal, and what follows it in these
\* pages is no JavaScript, so the script does not compile (ok is FALSE)
StringLiteral(s) ==
    IF s = <<>> THEN [ok |-> TRUE, value |-> <<>>]
    ELSE IF Head(s) = "'" \/ Head(s) = "\n" THEN [ok |-> FALSE, value |-> <<>>]
    ELSE IF Head(s) = "\\"
    THEN IF Len(s) = 1 THEN [ok |-> FALSE, value |-> <<>>]
         ELSE LET rest == StringLiteral(SubSeq(s, 3, Len(s)))
              IN  [ok |-> rest.ok,
                   value |-> IF rest.ok THEN <<Unescape(s[2])>> \o rest.value ELSE <<>>]
    ELSE LET rest == StringLiteral(Tail(s))
         IN  [ok |-> rest.ok, value |-> IF rest.ok THEN <<Head(s)>> \o rest.value ELSE <<>>]

\* the <script> element compiles: every literal of it is well-formed
Compiles(page) ==
    /\ StringLiteral(page.signal).ok
    /\ StringLiteral(page.data).ok
    /\ StringLiteral(page.targetOrigin).ok
    /\ page.listenerOrigin # Undefined => StringLiteral(page.listenerOrigin).ok

\* the messages other windows post to the popup
Messages(pop) ==
    { [source |-> source, data |-> data, origin |-> origin] :
        source \in (IF pop.opener THEN {"opener", "other"} ELSE {"other"}),
        data \in {authorizing \o <<":">> \o github, authorizing \o <<":">> \o gitlab,
                  <<"h", "i">>},
        origin \in Origins }

\* postMessage(message, targetOrigin) throws a SyntaxError unless targetOrigin is
\* '*' or parses as a URL
ValidTargetOrigin(targetOrigin) == targetOrigin # <<"n", "u", "l", "l">>

\* window.postMessage as called by the script
postMessage(posted, by, data, targetOrigin) ==
    IF ValidTargetOrigin(targetOrigin)
    THEN Append(posted, [by |-> by, data |-> data, targetOrigin |-> targetOrigin])
    ELSE posted

\* the condition of the listener without source === window.opener
ListenerAcceptsAnySource(page, msg) ==
    /\ page.listenerOrigin # Undefined
         => msg.origin = StringLiteral(page.listenerOrigin).value
    /\ msg.data = StringLiteral(page.signal).value

\* the condition of the listener: origin === trustOrigin (when trustOrigin is set)
\* && source === window.opener && data === signal
ListenerAccepts(page, msg) ==
    /\ page.listenerOrigin # Undefined
         => msg.origin = StringLiteral(page.listenerOrigin).value
    /\ msg.source = "opener"
    /\ msg.data = StringLiteral(page.signal).value

InitHandshake ==
    /\ app = "v2"
    /\ env = [ALLOW_SITE_ID_LIST |-> ALLOW_SITE_ID_LIST]
    /\ jar = {}
    /\ generated = 0
    /\ last = NoExchange
    /\ served = NoCallbackURL
    /\ issued = NoneIssued
    /\ failed = FALSE
    /\ popup \in {[NoPopup EXCEPT
                       !.args = a,
                       !.page = renderBody(a.provider, a.status, a.payload, a.trustOrigin),
                       !.opener = opener] :
                    a \in PageArgs, opener \in BOOLEAN}

\* the script runs: the listener is registered, then the signal is posted to the
\* opener; without an opener, or with a target origin that is no URL, that call
\* throws. A script that does not compile does nothing
RunScript ==
    /\ ~popup.loaded
    /\ popup' = IF Compiles(popup.page)
                THEN [popup EXCEPT
                        !.loaded = TRUE,
                        !.listening = TRUE,
                        !.posted = IF popup.opener
                                   THEN postMessage(@, "script",
                                            StringLiteral(popup.page.signal).value,
                                            StringLiteral(popup.page.targetOrigin).value)
                                   ELSE @]
                ELSE [popup EXCEPT !.loaded = TRUE]
    /\ UNCHANGED <<app, env, jar, generated, last, served, issued, failed>>

\* the listener registered without { once: true }: it stays and runs on every message
DeliverEvery ==
    /\ popup.received < MaxMessages
    /\ \E msg \in Messages(popup) :
        popup' = IF popup.listening
                 THEN [popup EXCEPT
                         !.received = @ + 1,
                         !.handled = msg,
                         !.posted = IF ListenerAccepts(popup.page, msg)
                                    THEN postMessage(@, "listener",
                                             StringLiteral(popup.page.data).value,
                                             msg.origin)
                                    ELSE @]
                 ELSE [popup EXCEPT
                         !.received = @ + 1,
                         !.late = @ \/ (popup.loaded /\ Compiles(popup.page)
                                          /\ ListenerAccepts(popup.page, msg))]
    /\ UNCHANGED <<app, env, jar, generated, last, served, issued, failed>>

\* a message event is dispatched at the popup: the listener, registered with
\* { once: true }, is removed and runs; it posts the result to the source of the
\* message, for the origin of the message, when its condition holds
Deliver ==
    /\ popup.received < MaxMessages
    /\ \E msg \in Messages(popup) :
        popup' = IF popup.listening
                 THEN [popup EXCEPT
                         !.received = @ + 1,
                         !.listening = FALSE,
                         !.handled = msg,
                         !.posted = IF ListenerAccepts(popup.page, msg)
                                    THEN postMessage(@, "listener",
                                             StringLiteral(popup.page.data).value,
                                             msg.origin)
                                    ELSE @]
                 ELSE [popup EXCEPT
                         !.received = @ + 1,
                         !.late = @ \/ (popup.loaded /\ Compiles(popup.page)
                                          /\ ListenerAccepts(popup.page, msg))]
    /\ UNCHANGED <<app, env, jar, generated, last, served, issued, failed>>

NextHandshake == RunScript \/ Deliver

SpecHandshake == InitHandshake /\ [][NextHandshake]_vars

-----------------------------------------------------------------------------
(* What the claims speak of *)

\* the site_ids the configuration above allows
AllowedSiteIds == {<<"a">>, <<"B">>, localhost, loopback}

SupportedProviders == {github, gitlab}

\* the name under which the browser holds the state cookie of a provider
StateCookieOf(provider) == SecurePrefix \o provider \o <<"-", "s", "t", "a", "t", "e">>

\* the state cookies of the request's provider that the browser sent
SentStateCookies(req) == {c \in req.cookies : c.name = StateCookieOf(req.provider)}

\* the last exchange is a /callback of v2 that passed the site_id and provider checks
CallbackPastChecks ==
    /\ app = "v2"
    /\ last.endpoint = "callback"
    /\ last.req.site_id \in AllowedSiteIds
    /\ last.req.provider \in SupportedProviders

InvalidStateResponse ==
    /\ last.resp.status = 400
    /\ last.resp.kind = "text"
    /\ last.resp.text = "Invalid state"

SuccessPage == last.resp.kind = "html" /\ last.resp.status = 200

\* C1: a /callback with allowed site_id and supported provider whose state is
\* absent or empty, or that comes without the provider's state cookie, or whose
\* cookie value differs from state, is answered 400 'Invalid state' with no code
\* exchange and no page, whatever its code; so a success page implies that state
\* equalled the stored cookie value
C1_StateMismatchRejected ==
    CallbackPastChecks =>
        LET sent == SentStateCookies(last.req)
            state == last.req.state
        IN  /\ (~Truthy(state) \/ sent = {}
                    \/ \A c \in sent : PlainValue(c.value) # state)
               => (InvalidStateResponse /\ last.calls = 0 /\ last.resp.page = NoPage)
            /\ SuccessPage
               => (Truthy(state) /\ \E c \in sent : PlainValue(c.value) = state)

\* a cookie of the provider was sent, the code is present, the state is another one
C1_Witness ==
    /\ CallbackPastChecks
    /\ last.req.code = <<"c">>
    /\ Truthy(last.req.state)
    /\ \E c \in SentStateCookies(last.req) :
        /\ c.value = PlainValue(c.value) \o <<".">> \o HMAC(SECRET, PlainValue(c.value))
        /\ PlainValue(c.value) # last.req.state
    /\ InvalidStateResponse

\* the last exchange is an /auth of v2
AuthExchange == app = "v2" /\ last.endpoint = "auth"

\* the last exchange is a /callback of v2
CallbackExchange == app = "v2" /\ last.endpoint = "callback"

PastChecks ==
    last.req.site_id \in AllowedSiteIds /\ last.req.provider \in SupportedProviders

\* C2: the same /callback URL requested again right after it was served past the
\* state and code checks (as a success or as a provider error) is answered
\* 400 'Invalid state'
C2_ReplayRejected ==
    (CallbackExchange /\ served # NoCallbackURL /\ CallbackURL(last.req) = served)
        => InvalidStateResponse

\* C3: after every /callback the browser no longer holds the state cookie of the
\* request's provider that it sent with the request
C3_CookieDeletedOnCallback ==
    CallbackExchange =>
        \A c \in jar : c.name # StateCookieOf(last.req.provider)

\* C4: an /auth with allowed site_id and supported provider is answered by a
\* redirect to that provider whose state is the value of the signed state cookie
\* the same response sets, under the provider's name, with path /callback and
\* maxAge 180; the state is the one generated for this request, which no earlier
\* request was given
C4_AuthIssuesStateCookie ==
    (AuthExchange /\ PastChecks) =>
        LET resp == last.resp
            state == resp.location.state
        IN  /\ resp.status = 302 /\ resp.kind = "redirect"
            /\ resp.location.client.kind
                 = (IF last.req.provider = github THEN "GitHub" ELSE "GitLab")
            /\ Len(resp.setCookie) = 1
            /\ resp.setCookie[1].name = StateCookieOf(last.req.provider)
            /\ resp.setCookie[1].value = state \o <<".">> \o HMAC(SECRET, state)
            /\ resp.setCookie[1].path = <<"/", "c", "a", "l", "l", "b", "a", "c", "k">>
            /\ resp.setCookie[1].maxAge = 180
            /\ generated >= 1
            /\ state = generateState(generated)
            /\ \A n \in 1..(generated - 1) : state # generateState(n)
            /\ \E c \in jar : c.name = resp.setCookie[1].name
                              /\ c.value = resp.setCookie[1].value /\ c.age = 0

\* the second state of a behaviour has been issued, for gitlab
C4_Witness ==
    /\ AuthExchange /\ PastChecks
    /\ last.req.provider = gitlab
    /\ last.resp.kind = "redirect"
    /\ generated = 2

\* C5: an /auth or /callback whose site_id is not allowed or whose provider is not
\* supported is answered 400, sets no cookie and makes no code exchange; only an
\* /auth past both checks writes a state cookie and only a /callback past both
\* checks contacts the provider
C5_FailClosed ==
    (app = "v2" /\ last.endpoint # "none") =>
        /\ ~PastChecks
            => /\ last.resp.status = 400
               /\ last.resp.setCookie = <<>>
               /\ last.calls = 0
               /\ last.resp.kind = "text"
        /\ (\E i \in 1..Len(last.resp.setCookie) : last.resp.setCookie[i].maxAge > 0)
            => (last.endpoint = "auth" /\ PastChecks)
        /\ last.calls > 0 => (last.endpoint = "callback" /\ PastChecks)

\* a /callback with a site_id off the list came with a matching state cookie and a code
C5_Witness ==
    /\ CallbackExchange
    /\ last.req.site_id = <<"b">>
    /\ last.req.provider = github
    /\ last.req.code = <<"c">>
    /\ \E c \in SentStateCookies(last.req) :
         c.value = last.req.state \o <<".">> \o HMAC(SECRET, last.req.state)
    /\ last.resp.status = 400

\* the Referer of the last request parses as a URL whose hostname is site_id
RefererMatchesSite ==
    /\ URLparse(last.req.referer).ok
    /\ URLparse(last.req.referer).hostname = last.req.site_id

\* the completion page is scoped by the trustOrigin rule: to the Referer's origin
\* when its hostname is site_id, else to '*' with no origin check
ScopedByReferer ==
    IF RefererMatchesSite
    THEN /\ last.resp.page.targetOrigin = Origin(URLparse(last.req.referer))
         /\ last.resp.page.listenerOrigin = Origin(URLparse(last.req.referer))
    ELSE /\ last.resp.page.targetOrigin = Star
         /\ last.resp.page.listenerOrigin = Undefined

\* the request came with the state cookie its state names, and with a code
StateAndCodePresent ==
    /\ Truthy(last.req.state)
    /\ Truthy(last.req.code)
    /\ \E c \in SentStateCookies(last.req) :
         c.value = last.req.state \o <<".">> \o HMAC(SECRET, last.req.state)

\* C6: a completion page (success or provider error) is scoped to the Referer's
\* origin when the Referer's hostname is site_id, and to '*' otherwise; a Referer
\* that is absent, malformed or of another host does not get the request rejected
C6_TrustOriginFromReferer ==
    CallbackExchange =>
        /\ last.resp.kind = "html" => ScopedByReferer
        /\ (PastChecks /\ StateAndCodePresent
                /\ last.outcome \in {"tokens", "OAuth2RequestError"})
            => last.resp.kind = "html"

\* a success page scoped to http://a:8080, the origin of the Referer
C6_Witness ==
    /\ CallbackExchange
    /\ SuccessPage
    /\ last.req.site_id = <<"a">>
    /\ last.resp.page.targetOrigin
         = <<"h", "t", "t", "p", ":", "/", "/", "a", ":", "8", "0", "8", "0">>

\* the result has been posted as the i-th postMessage call of the popup
PayloadPostedAt(i) == popup.posted[i].by = "listener"

\* C7: the popup posts the result only after it posted the signal and then ran its
\* listener on a message from its opener whose data is the signal and, when
\* trustOrigin is set, whose origin is trustOrigin; the result goes to the origin
\* of that message
C7_PayloadOnlyAfterEcho ==
    \A i \in 1..Len(popup.posted) :
        PayloadPostedAt(i) =>
            /\ \E j \in 1..(i - 1) : popup.posted[j].data = popup.page.signal
            /\ popup.handled.source = "opener"
            /\ popup.handled.data = popup.page.signal
            /\ popup.page.listenerOrigin # Undefined
                 => popup.handled.origin = popup.page.listenerOrigin
            /\ popup.posted[i].targetOrigin = popup.handled.origin

\* the result has been posted by a page with a trustOrigin, after a message of
\* another window was not the first to arrive
C7_Witness ==
    /\ popup.page.listenerOrigin # Undefined
    /\ popup.received = 2
    /\ \E i \in 1..Len(popup.posted) : PayloadPostedAt(i)

\* C8: a provider error during a /callback past the site_id, provider, state and
\* code checks is answered 400 with the completion page of status error that
\* carries the provider's description as message, scoped as a success is
C8_ProviderErrorThroughHandshake ==
    (CallbackExchange /\ last.outcome = "OAuth2RequestError") =>
        /\ PastChecks /\ StateAndCodePresent
        /\ last.resp.status = 400
        /\ last.resp.kind = "html"
        /\ last.resp.page.signal = authorizing \o <<":">> \o last.req.provider
        /\ last.resp.page.data
             = authorization \o <<":">> \o last.req.provider \o <<":">> \o error
               \o <<":">> \o JSONstringify([key |-> <<"m", "e", "s", "s", "a", "g", "e">>,
                                            value |-> last.description])
        /\ ScopedByReferer

\* the provider rejected the code of a request with a Referer of the site
C8_Witness ==
    /\ CallbackExchange
    /\ last.outcome = "OAuth2RequestError"
    /\ last.resp.status = 400
    /\ RefererMatchesSite
    /\ last.resp.page.data
         = <<"a", "u", "t", "h", "o", "r", "i", "z", "a", "t", "i", "o", "n", ":",
             "g", "i", "t", "h", "u", "b", ":", "e", "r", "r", "o", "r", ":",
             "{", "\"", "m", "e", "s", "s", "a", "g", "e", "\"", ":",
             "\"", "b", "a", "d", "\"", "}">>

\* C9: a /callback calls the provider's token endpoint at most once; a transport
\* failure of that call ends the request with 500 and no completion page, a
\* provider error with 400
C9_SingleExchange ==
    (last.endpoint # "none") =>
        /\ last.calls <= 1
        /\ last.outcome = "ArcticFetchError"
            => (last.calls = 1 /\ last.resp.status = 500 /\ last.resp.kind = "text"
                /\ last.resp.page = NoPage)
        /\ last.outcome = "OAuth2RequestError"
            => (last.calls = 1 /\ last.resp.status = 400)

\* the provider could not be reached
C9_Witness ==
    /\ last.endpoint = "callback"
    /\ last.outcome = "ArcticFetchError"
    /\ last.resp.status = 500

\* C10: a rejection for an invalid site_id is the response a rejection for an
\* invalid provider gets: the same request with an allowed site_id and an
\* unsupported provider is answered identically
C10_RejectionsIndistinguishable ==
    (CallbackExchange /\ last.req.site_id \notin AllowedSiteIds) =>
        last.resp = callbackRoute([last.req EXCEPT !.site_id = <<"a">>,
                                                   !.provider = bitbucket],
                                  CHOOSE o \in Outcomes : TRUE, TRUE).resp

\* C11: the script of the page rendered for a provider, a status and a payload
\* posts to the opener exactly "authorizing:" + provider, its listener compares
\* with that same string, and what the listener posts is exactly
\* "authorization:" + provider + ":" + status + ":" + the JSON encoding of the payload
C11_BitExactStrings ==
    popup.loaded =>
        LET a == popup.args
            signal == authorizing \o <<":">> \o a.provider
            data == authorization \o <<":">> \o a.provider \o <<":">> \o a.status
                    \o <<":">> \o JSONstringify(a.payload)
        IN  /\ (popup.opener /\ ValidTargetOrigin(Coalesce(a.trustOrigin, Star)))
                => \E i \in 1..Len(popup.posted) :
                      popup.posted[i].by = "script" /\ popup.posted[i].data = signal
            /\ \A i \in 1..Len(popup.posted) :
                  /\ popup.posted[i].by = "script" => popup.posted[i].data = signal
                  /\ popup.posted[i].by = "listener"
                       => (popup.posted[i].data = data /\ popup.handled.data = signal)

\* the states issued to /auth requests for a provider
IssuedFor(provider) == {n \in 1..generated : issued[n].provider = provider}

\* the last exchange is a /callback past the site_id and provider checks that
\* carries a code and the n-th state, which was issued for its provider less
\* than three minutes ago
CallbackOfFlow(n) ==
    /\ CallbackPastChecks
    /\ n \in IssuedFor(last.req.provider)
    /\ issued[n].age * TickSeconds < 3 * 60
    /\ last.req.state = generateState(n)
    /\ Truthy(last.req.code)

C13_NoRetryWithinFlow ==
    (app = "v2" /\ last.endpoint = "callback" /\ failed /\ OfLastFlow(last.req))
        => ~SuccessPage

\* the state of the last request is the one its state cookie holds, as the worker
\* stored it
StateMatches ==
    /\ Truthy(last.req.state)
    /\ IF app = "v2"
       THEN \E c \in SentStateCookies(last.req) :
                c.value = last.req.state \o <<".">> \o HMAC(SECRET, last.req.state)
       ELSE \E c \in last.req.cookies :
                /\ c.name = SecurePrefix \o AuthStateCookie
                /\ c.value = last.req.state
                /\ verifyToken(SECRET, last.req.state)

\* C14: a /callback with allowed site_id and supported provider is answered
\* 'Invalid state' when its state does not match, whether or not it has a code;
\* with a matching state and no code it is answered 'Invalid code'; the provider
\* is called in neither case
C14_CheckOrder ==
    (last.endpoint = "callback" /\ PastChecks) =>
        /\ ~StateMatches
            => (last.resp.status = 400 /\ last.resp.text = "Invalid state"
                /\ last.calls = 0)
        /\ (StateMatches /\ ~Truthy(last.req.code))
            => (last.resp.status = 400 /\ last.resp.text = "Invalid code"
                /\ last.calls = 0)

\* C15: a /callback past the site_id and provider checks whose state was issued
\* for another provider than its own is answered 400 'Invalid state' without a
\* code exchange, and an exchange leaves in the browser every cookie but the
\* state cookie of the provider it names
C15_StateBoundToProvider ==
    /\ [](\A n \in 1..generated :
            (CallbackPastChecks /\ last.req.state = generateState(n)
                 /\ issued[n].provider # last.req.provider)
               => (InvalidStateResponse /\ last.calls = 0))
    /\ [][last'.endpoint # "none"
            => \A c \in jar : c.name # StateCookieOf(last'.req.provider) => c \in jar']_vars

\* a gitlab /callback came with the state and the code of a github flow while the
\* browser held the state cookies of a github flow and of a gitlab flow
C15_Witness ==
    /\ CallbackPastChecks
    /\ last.req.provider = gitlab
    /\ last.req.state = generateState(1)
    /\ last.req.code = <<"c">>
    /\ issued[1].provider = github
    /\ issued[2].provider = gitlab
    /\ \E c \in last.req.cookies :
         c.name = StateCookieOf(github)
         /\ c.value = generateState(1) \o <<".">> \o HMAC(SECRET, generateState(1))
    /\ \E c \in last.req.cookies : c.name = StateCookieOf(gitlab)
    /\ InvalidStateResponse

\* the cookie's value is a value followed by its signature under the secret
SignedWithSecret(c) ==
    c.value = PlainValue(c.value) \o <<".">> \o HMAC(SECRET, PlainValue(c.value))

\* C16: a /callback past the site_id and provider checks whose state cookie does
\* not carry a signature of its value under the configured secret is answered as
\* one without the cookie is: 400 'Invalid state', with no code exchange,
\* whatever its state and its code
C16_UnsignedCookieIsAbsent ==
    (CallbackPastChecks /\ \A c \in SentStateCookies(last.req) : ~SignedWithSecret(c))
        => /\ InvalidStateResponse
           /\ last.calls = 0
           /\ last.resp.text
                = callbackRoute([last.req EXCEPT !.cookies = {}],
                                CHOOSE o \in Outcomes : TRUE, TRUE).resp.text

\* a /callback came with a code and with the state that a cookie signed with
\* another key holds
C16_Witness ==
    /\ CallbackPastChecks
    /\ last.req.code = <<"c">>
    /\ \E c \in SentStateCookies(last.req) :
         /\ c.value = last.req.state \o <<".">> \o HMAC(<<"x">>, last.req.state)
         /\ ~SignedWithSecret(c)
    /\ InvalidStateResponse
    /\ last.calls = 0

EntriesOf(config) ==
    CASE config = <<" ", "a", ",", ",", "B", " ">> -> {<<"a">>, <<"B">>}
      [] config = <<>> -> {}
      [] config = <<",", " ", ",">> -> {}
      [] config = <<"b">> -> {<<"b">>}

\* site_id is not empty and is an entry of the configuration or a built-in default
SiteIdAccepted(config, site_id) ==
    /\ site_id # Undefined
    /\ site_id # <<>>
    /\ site_id \in EntriesOf(config) \cup {localhost, loopback}

\* C18: /auth and /callback answer 400 'Invalid site_id' exactly when site_id is
\* absent, empty, or neither an entry of ALLOW_SITE_ID_LIST (split at the commas,
\* trimmed, empty entries dropped, compared with case) nor localhost or 127.0.0.1
C18_SiteIdRule ==
    (app = "v2" /\ last.endpoint # "none") =>
        ((last.resp.status = 400 /\ last.resp.text = "Invalid site_id")
            <=> ~SiteIdAccepted(env.ALLOW_SITE_ID_LIST, last.req.site_id))

\* an empty site_id was rejected at /callback under a list of empty entries, after
\* /auth had accepted localhost under that list
C18_Witness ==
    /\ env.ALLOW_SITE_ID_LIST = <<",", " ", ",">>
    /\ last.endpoint = "callback"
    /\ last.req.site_id = <<>>
    /\ last.resp.text = "Invalid site_id"
    /\ \E c \in jar : c.name = StateCookieOf(github)

\* the postMessage calls the listener made
ListenerPosts == {i \in 1..Len(popup.posted) : popup.posted[i].by = "listener"}

\* msg is the opener's echo of the signal, from trustOrigin when there is one
ValidEcho(msg) ==
    /\ msg.source = "opener"
    /\ msg.data = authorizing \o <<":">> \o popup.args.provider
    /\ Truthy(popup.args.trustOrigin) => msg.origin = popup.args.trustOrigin

\* C19: the listener runs on one message at most and is removed by it, whether or
\* not the message passes the checks; the result is posted at most once, and not
\* at all when the message the listener ran on was not the opener's echo,
\* whatever arrives afterwards
C19_OneMessageOnly ==
    /\ Cardinality(ListenerPosts) <= 1
    /\ popup.handled # NoMessage => ~popup.listening
    /\ (popup.handled = NoMessage \/ ~ValidEcho(popup.handled)) => ListenerPosts = {}

\* the listener ran on a message of another window, the opener's echo came after
\* it, and the result has not been posted
C19_Witness ==
    /\ popup.opener
    /\ popup.handled.source = "other"
    /\ popup.late
    /\ popup.received = 2
    /\ ListenerPosts = {}
====
